---- MODULE Spec2Model ----
(***************************************************************************)
(* photosorter (sorter.py): a daemon that watches a source folder and      *)
(* moves image files into <root>/<YYYY>/<YYYY-MM>/<timestamp><ext>.        *)
(*                                                                         *)
(* Strings are sequences of tokens.  A token is one character ("2", "-",   *)
(* ".", "/", " ") or an opaque run of letters ("root", "JPG") whose inner  *)
(* structure no function of the program looks at.  A path is such a        *)
(* string; the file system is the pair (files, dirs).                      *)
(***************************************************************************)
EXTENDS Integers, Sequences, FiniteSets, TLC

VARIABLES
    files,            \* file system: path -> [content, mtime] of every regular file
    dirs,             \* file system: the set of existing directories
    hashes,           \* hash_cache.hashes: folder -> [set, byname]
    shared_queue,     \* queue.Queue: the deque of queued paths
    unfinished_tasks, \* queue.Queue.unfinished_tasks
    is_running,       \* MoveFileThread.is_running
    worker_pc,        \* MoveFileThread position: "new", "loop", "move", "task_done", "exited"
    file_path,        \* MoveFileThread.run's local file_path
    main_pc,          \* position of run() in the main thread
    observer_alive,   \* the watchdog observer is started and not stopped
    events,           \* notifications the observer has not dispatched yet
    last,             \* what the latest move_file call did
    enq,              \* history: every path put on shared_queue, in put order
    done,             \* history: every finished move_file call, in order
    sig_pending,      \* history: 2 if two or more items were not yet attempted
                      \* when the interrupt came, else 0
    n_env,            \* number of file-system changes made by the user so far
    libc_pads_year    \* the build: the C library's strftime pads %Y to four digits

vars == <<files, dirs, hashes, shared_queue, unfinished_tasks, is_running,
          worker_pc, file_path, main_pc, observer_alive, events, last, enq,
          done, sig_pending, n_env,
          libc_pads_year>>

(***************************************************************************)
(* Bounds of the model.                                                    *)
(***************************************************************************)
MaxEnv == 2

(***************************************************************************)
(* Results of calls that may raise, and local variables: the Python        *)
(* statements  x = v; return e  are  Only({e : x \in {v}}), in which v is   *)
(* computed once.                                                          *)
(***************************************************************************)
Only(S) == CHOOSE y \in S : TRUE

Ok(v) == [exc |-> "none", val |-> v]

Raise(e) == [exc |-> e, val |-> <<>>]

(***************************************************************************)
(* str: digits, int(), str.lower(), '%i' and zero-padded formatting.       *)
(***************************************************************************)
DigitChars == <<"0", "1", "2", "3", "4", "5", "6", "7", "8", "9">>

IsDigit(c) == \E i \in 1..10 : DigitChars[i] = c

DigitVal(c) == (CHOOSE i \in 1..10 : DigitChars[i] = c) - 1

RECURSIVE py_int(_)
\* int(s) for a non-empty all-digit string; the caller checks IsNumeric first
py_int(s) ==
    IF Len(s) = 0 THEN 0
    ELSE 10 * Only({py_int(x) : x \in {SubSeq(s, 1, Len(s) - 1)}})
         + DigitVal(s[Len(s)])

IsNumeric(s) == Len(s) > 0 /\ \A i \in 1..Len(s) : IsDigit(s[i])

RECURSIVE fmt_int(_)
\* '%i' % n for n >= 0
fmt_int(n) ==
    IF n < 10 THEN <<DigitChars[n + 1]>>
    ELSE fmt_int(n \div 10) \o <<DigitChars[(n % 10) + 1]>>

RECURSIVE zero_pad(_, _)
\* strftime's zero-padded fields (%Y: width 4, %m %d %H %M %S: width 2)
zero_pad(s, width) == IF Len(s) >= width THEN s ELSE zero_pad(<<"0">> \o s, width)

lower_token(c) ==
    CASE c = "JPG" -> "jpg"
      [] c = "Jpg" -> "jpg"
      [] c = "JPEG" -> "jpeg"
      [] c = "PNG" -> "png"
      [] c = "MOV" -> "mov"
      [] c = "TXT" -> "txt"
      [] OTHER -> c

str_lower(s) == [i \in 1..Len(s) |-> lower_token(s[i])]

(***************************************************************************)
(* os.path (posixpath).                                                    *)
(***************************************************************************)
Sep == "/"

\* str.rfind: the last index of token c in s, 0 when there is none
rfind(s, c) ==
    IF \E i \in 1..Len(s) : s[i] = c
    THEN CHOOSE i \in 1..Len(s) : s[i] = c /\ \A j \in (i + 1)..Len(s) : s[j] # c
    ELSE 0

RECURSIVE rstrip_sep(_)
rstrip_sep(s) ==
    IF Len(s) > 0 /\ s[Len(s)] = Sep
    THEN Only({rstrip_sep(x) : x \in {SubSeq(s, 1, Len(s) - 1)}})
    ELSE s

os_path_join(a, b) ==
    IF Len(a) = 0 THEN b
    ELSE IF a[Len(a)] = Sep THEN a \o b
    ELSE a \o <<Sep>> \o b

\* posixpath.dirname, given the part of p up to its last slash
dirname_of_head(head) ==
    IF Len(head) > 0 /\ \E i \in 1..Len(head) : head[i] # Sep
    THEN rstrip_sep(head)
    ELSE head

os_path_dirname(p) ==
    Only({dirname_of_head(head) : head \in {SubSeq(p, 1, rfind(p, Sep))}})

os_path_basename(p) == SubSeq(p, rfind(p, Sep) + 1, Len(p))

\* os.path.splitext: <<root, ext>>; leading dots of the basename start no extension
os_path_splitext(p) ==
    LET sepIndex == rfind(p, Sep)
        dotIndex == rfind(p, ".")
    IN  IF dotIndex > sepIndex
           /\ \E k \in (sepIndex + 1)..(dotIndex - 1) : p[k] # "."
        THEN <<SubSeq(p, 1, dotIndex - 1), SubSeq(p, dotIndex, Len(p))>>
        ELSE <<p, <<>>>>

RECURSIVE collapse_seps(_)
collapse_seps(s) ==
    IF Len(s) < 2 THEN s
    ELSE IF s[1] = Sep /\ s[2] = Sep THEN Only({collapse_seps(x) : x \in {Tail(s)}})
    ELSE <<s[1]>> \o Only({collapse_seps(x) : x \in {Tail(s)}})

\* os.path.normpath for paths without "." and ".." components:
\* repeated slashes collapse and trailing slashes go
\* posixpath.normpath, given the path with its repeated slashes collapsed
normpath_of_collapsed(c) ==
    IF Len(c) = 0 THEN <<".">>
    ELSE IF c = <<Sep>> THEN c
    ELSE rstrip_sep(c)

os_path_normpath(p) ==
    Only({normpath_of_collapsed(Only({collapse_seps(x) : x \in {y}})) : y \in {p}})

os_path_exists(p) == p \in DOMAIN files \/ p \in dirs

os_path_isfile(p) == p \in DOMAIN files

(***************************************************************************)
(* datetime.datetime and strftime.                                         *)
(***************************************************************************)
IsLeap(y) == (y % 4 = 0 /\ y % 100 # 0) \/ y % 400 = 0

DaysInMonth(y, m) ==
    IF m = 2 THEN (IF IsLeap(y) THEN 29 ELSE 28)
    ELSE IF m \in {4, 6, 9, 11} THEN 30
    ELSE 31

DateTime(y, mo, d, h, mi, s) ==
    [year |-> y, month |-> mo, day |-> d, hour |-> h, minute |-> mi, second |-> s]

\* None, where the code returns Optional[datetime]; no datetime has year 0
None == DateTime(0, 0, 0, 0, 0, 0)

\* datetime.datetime(...): ValueError unless the six fields form a date and time
datetime_new(y, mo, d, h, mi, s) ==
    IF /\ y \in 1..9999
       /\ mo \in 1..12
       /\ d \in 1..DaysInMonth(y, mo)
       /\ h \in 0..23
       /\ mi \in 0..59
       /\ s \in 0..59
    THEN Ok(DateTime(y, mo, d, h, mi, s))
    ELSE Raise("ValueError")

\* %Y: four digits from year 1000 on; before that the C library decides
\* (glibc prints the year as it is, others pad it with zeros)
strf_Y(dt) ==
    IF libc_pads_year THEN zero_pad(fmt_int(dt.year), 4) ELSE fmt_int(dt.year)

strf_2(n) == zero_pad(fmt_int(n), 2)

folder_from_datetime(dt) ==
    strf_Y(dt) \o <<Sep>> \o strf_Y(dt) \o <<"-">> \o strf_2(dt.month)

basename_from_datetime(dt) ==
    strf_Y(dt) \o <<"-">> \o strf_2(dt.month) \o <<"-">> \o strf_2(dt.day)
    \o <<" ">> \o strf_2(dt.hour) \o <<".">> \o strf_2(dt.minute)
    \o <<".">> \o strf_2(dt.second)

filename_from_datetime(dt, path) ==
    basename_from_datetime(dt) \o str_lower(os_path_splitext(path)[2])

path_from_datetime(root_folder, dt, path) ==
    os_path_join(os_path_join(root_folder, folder_from_datetime(dt)),
                 filename_from_datetime(dt, path))

(***************************************************************************)
(* File contents.  A content is a name for a sequence of bytes; the EXIF   *)
(* tags are part of the bytes, so they are a function of the content.      *)
(***************************************************************************)
Ts_2004_05_07 ==
    <<"2", "0", "0", "4", ":", "0", "5", ":", "0", "7", " ",
      "2", "0", ":", "1", "6", ":", "3", "1">>

Ts_month13 ==
    <<"2", "0", "0", "4", ":", "1", "3", ":", "0", "7", " ",
      "2", "0", ":", "1", "6", ":", "3", "1">>

Ts_2006_09_09 ==
    <<"2", "0", "0", "6", ":", "0", "9", ":", "0", "9", " ",
      "0", "7", ":", "0", "0", ":", "2", "4">>

\* a timestamp of year 99
Ts_0099_05_07 ==
    <<"0", "0", "9", "9", ":", "0", "5", ":", "0", "7", " ",
      "2", "0", ":", "1", "6", ":", "3", "1">>

\* a timestamp without seconds: five fields
Ts_no_seconds ==
    <<"2", "0", "0", "4", ":", "0", "5", ":", "0", "7", " ",
      "2", "0", ":", "1", "6">>

\* a date with two spaces before the time: seven fields, one of them empty
Ts_two_spaces ==
    <<"2", "0", "0", "4", ":", "0", "5", ":", "0", "7", " ", " ",
      "2", "0", ":", "1", "6", ":", "3", "1">>

\* the timestamp of a camera whose clock was never set
Ts_zeros ==
    <<"0", "0", "0", "0", ":", "0", "0", ":", "0", "0", " ",
      "0", "0", ":", "0", "0", ":", "0", "0">>

\* exifread.process_file(f, details=False), as a function from tag name to value:
\*   A  a photo taken 2004-05-07 20:16:31 (DateTimeOriginal)
\*   B  another photo of the same second (DateTimeDigitized only)
\*   N  an image without EXIF data
\*   X  a photo whose DateTimeOriginal names month 13
\*   C  a photo with both fields, the digitized one later
\*   E  a photo dated year 99
\*   W  DateTimeOriginal of five fields, no DateTimeDigitized
\*   V  DateTimeOriginal of five fields, DateTimeDigitized well-formed
\*   Q  DateTimeOriginal with an empty field
\*   Z  DateTimeOriginal all zeros
\*   S  DateTimeDigitized only, all zeros
exif_tags(content) ==
    CASE content = "A" -> [t \in {"EXIF DateTimeOriginal"} |-> Ts_2004_05_07]
      [] content = "B" -> [t \in {"EXIF DateTimeDigitized"} |-> Ts_2004_05_07]
      [] content = "X" -> [t \in {"EXIF DateTimeOriginal"} |-> Ts_month13]
      [] content = "C" -> [t \in {"EXIF DateTimeOriginal", "EXIF DateTimeDigitized"} |->
                              IF t = "EXIF DateTimeOriginal" THEN Ts_2004_05_07
                              ELSE Ts_2006_09_09]
      [] content = "E" -> [t \in {"EXIF DateTimeOriginal"} |-> Ts_0099_05_07]
      [] content = "W" -> [t \in {"EXIF DateTimeOriginal"} |-> Ts_no_seconds]
      [] content = "V" -> [t \in {"EXIF DateTimeOriginal", "EXIF DateTimeDigitized"} |->
                              IF t = "EXIF DateTimeOriginal" THEN Ts_no_seconds
                              ELSE Ts_2006_09_09]
      [] content = "Q" -> [t \in {"EXIF DateTimeOriginal"} |-> Ts_two_spaces]
      [] content = "Z" -> [t \in {"EXIF DateTimeOriginal"} |-> Ts_zeros]
      [] content = "S" -> [t \in {"EXIF DateTimeDigitized"} |-> Ts_zeros]
      [] OTHER -> [t \in {} |-> <<>>]

Mtime1 == DateTime(2014, 2, 23, 21, 47, 14)

Mtime2 == DateTime(2014, 3, 8, 18, 31, 35)

File(c, m) == [content |-> c, mtime |-> m]

(***************************************************************************)
(* The capture date: creation_date and the EXIF functions.                 *)
(***************************************************************************)
IsFieldSep(c) == c = ":" \/ c = " "

RECURSIVE re_split(_)
\* re.split(':| ', ts)
re_split(ts) ==
    IF \E i \in 1..Len(ts) : IsFieldSep(ts[i])
    THEN Only({<<SubSeq(ts, 1, i - 1)>>
                   \o Only({re_split(x) : x \in {SubSeq(ts, i + 1, Len(ts))}}) :
               i \in {CHOOSE k \in 1..Len(ts) :
                          IsFieldSep(ts[k]) /\ \A j \in 1..(k - 1) : ~IsFieldSep(ts[j])}})
    ELSE <<ts>>

\* lines 249-255 on the split fields: int() of each, the count, the constructor
elements_to_datetime(fields) ==
    IF \E i \in 1..Len(fields) : ~IsNumeric(fields[i])
    THEN Raise("ValueError")
    ELSE IF Len(fields) # 6 THEN Raise("BadExifTimestampError")
    ELSE datetime_new(py_int(fields[1]), py_int(fields[2]), py_int(fields[3]),
                      py_int(fields[4]), py_int(fields[5]), py_int(fields[6]))

exif_timestamp_to_datetime(ts) ==
    Only({elements_to_datetime(elements) : elements \in {re_split(ts)}})

exif_creation_timestamp(path) ==
    LET tags == exif_tags(files[path].content)
    IN  IF "EXIF DateTimeOriginal" \in DOMAIN tags
        THEN Ok(tags["EXIF DateTimeOriginal"])
        ELSE IF "EXIF DateTimeDigitized" \in DOMAIN tags
        THEN Ok(tags["EXIF DateTimeDigitized"])
        ELSE Raise("MissingExifTimestampError")

\* lines 221-225: only BadExifTimestampError is caught
parsed_or_none(dt) == IF dt.exc = "BadExifTimestampError" THEN Ok(None) ELSE dt

\* lines 215-225, given what exif_creation_timestamp returned or raised
exif_date_from(ts) ==
    IF ts.exc = "MissingExifTimestampError" THEN Ok(None)
    ELSE Only({parsed_or_none(dt) : dt \in {exif_timestamp_to_datetime(ts.val)}})

exif_creation_date(path) ==
    Only({exif_date_from(ts) : ts \in {exif_creation_timestamp(path)}})

file_creation_date(path) == files[path].mtime

\* lines 199-201, given what exif_creation_date returned or raised
exif_or_mtime(exif_date, path) ==
    IF exif_date.exc # "none" THEN exif_date
    ELSE IF exif_date.val # None THEN exif_date
    ELSE Ok(file_creation_date(path))

creation_date(path) ==
    Only({exif_or_mtime(exif_date, path) : exif_date \in {exif_creation_date(path)}})

(***************************************************************************)
(* Destination planning.                                                   *)
(***************************************************************************)
\* the extension filter missing
is_valid_filename_any(path) == TRUE

is_valid_filename(path) ==
    str_lower(os_path_splitext(path)[2])
        \in {<<".", "jpg">>, <<".", "jpeg">>, <<".", "png">>, <<".", "mov">>}

RECURSIVE probe_from(_, _, _, _)
\* the while loop of resolve_duplicate, entered with dedup_index = n
probe_from(dirname, filename, ext, n) ==
    LET new_fname == filename \o <<"-">> \o fmt_int(n) \o ext
        new_path == os_path_join(dirname, new_fname)
    IN  IF ~os_path_exists(new_path) THEN new_path
        ELSE probe_from(dirname, filename, ext, n + 1)

\* the existence checks missing: the planned name is used as it is
resolve_duplicate_unchecked(path) == path

\* the probing starts at 2
resolve_duplicate_from_2(path) ==
    IF ~os_path_exists(path) THEN path
    ELSE LET basename == os_path_basename(path)
             split == os_path_splitext(basename)
         IN  probe_from(os_path_dirname(path), split[1], split[2], 2)

resolve_duplicate(path) ==
    IF ~os_path_exists(path) THEN path
    ELSE LET basename == os_path_basename(path)
             split == os_path_splitext(basename)
         IN  probe_from(os_path_dirname(path), split[1], split[2], 1)

\* lines 166-167, given what creation_date returned or raised
dest_path_for(root_folder, cdate, path) ==
    IF cdate.exc # "none" THEN cdate
    ELSE Ok(Only({resolve_duplicate(planned) :
                     planned \in {path_from_datetime(root_folder, cdate.val, path)}}))

dest_path(root_folder, path) ==
    Only({dest_path_for(root_folder, cdate, path) : cdate \in {creation_date(path)}})

(***************************************************************************)
(* HashCache.  hashes maps a folder to [set, byname]: the hashes seen in   *)
(* the folder, and a dict keyed by base name.  A defaultdict: reading a    *)
(* missing folder creates its empty entry.                                 *)
(***************************************************************************)
EmptyEntry == [set |-> {}, byname |-> [k \in {} |-> <<>>]]

\* self.hashes[folder] on the defaultdict h: h with the entry present
touch(h, folder) ==
    IF folder \in DOMAIN h THEN h
    ELSE [k \in DOMAIN h \cup {folder} |-> IF k = folder THEN EmptyEntry ELSE h[k]]

\* hashlib.sha1 of the bytes: equal bytes hash equal, different bytes different
sha1(content) == <<"sha1", content>>

\* the name hashed in place of the bytes
hash_of_name(path) == <<"sha1", path>>

\* HashCache._hash
hash_of(path) == sha1(files[path].content)

\* HashCache._target_folder
target_folder_of(path) == os_path_dirname(path)

\* line 73 of _add_file, on the cache h1 in which the folder's entry is present:
\* the path itself is looked up in the dict that line 80 keys by base name
has_hash_for(h1, folder, path) == path \in DOMAIN h1[folder].byname

\* _add_file that records the hash under the name but not in the folder's set
add_file_no_set(h, path) ==
    LET folder == target_folder_of(path)
        h1 == touch(h, folder)
        names == h1[folder].byname
        basename == os_path_basename(path)
    IN  [h1 EXCEPT ![folder] =
            [set |-> @.set,
             byname |-> [k \in DOMAIN names \cup {basename} |->
                            IF k = basename THEN hash_of(path) ELSE names[k]]]]

\* HashCache._add_file on the cache h: the cache afterwards
add_file(h, path) ==
    LET folder == target_folder_of(path)
        h1 == touch(h, folder)
    IN  IF has_hash_for(h1, folder, path) THEN h1
        ELSE LET file_hash == hash_of(path)
                 basename == os_path_basename(path)
                 names == h1[folder].byname
             IN  [h1 EXCEPT ![folder] =
                     [set |-> @.set \cup {file_hash},
                      byname |-> [k \in DOMAIN names \cup {basename} |->
                                     IF k = basename THEN file_hash ELSE names[k]]]]

\* os.listdir(folder): the names of the entries of an existing directory
os_listdir(folder) ==
    {os_path_basename(p) : p \in {q \in DOMAIN files \cup dirs :
                                     Len(q) > 0 /\ os_path_dirname(q) = folder /\ q # folder}}

\* HashCache._files_in_folder: an OSError of listdir gives the empty list
files_in_folder(folder_path) ==
    IF folder_path \notin dirs THEN {}
    ELSE {f \in {os_path_join(folder_path, n) : n \in os_listdir(folder_path)} :
             os_path_isfile(f)}

RECURSIVE add_files(_, _)
\* the loop of has_file over the listing (its order does not change the result)
add_files(h, paths) ==
    IF paths = {} THEN h
    ELSE Only({Only({add_files(h1, rest) : h1 \in {add_file(h, f)},
                                           rest \in {paths \ {f}}}) :
               f \in {CHOOSE x \in paths : TRUE}})

\* _add_file(path) on the cache h gets as far as self._hash(path)
add_file_hashes(h, path) ==
    \E folder \in {target_folder_of(path)} :
        ~has_hash_for(touch(h, folder), folder, path)

RECURSIVE files_hashed(_, _)
\* the files that the loop of has_file over the listing hashes (for the record)
files_hashed(h, paths) ==
    IF paths = {} THEN {}
    ELSE Only({(IF add_file_hashes(h, f) THEN {f} ELSE {})
                   \cup Only({files_hashed(h1, rest) : h1 \in {add_file(h, f)},
                                                       rest \in {paths \ {f}}}) :
               f \in {CHOOSE x \in paths : TRUE}})

\* lines 64-68, with h the cache after the back-fill of folder
has_file_lookup(h, folder, path, fault) ==
    IF fault = "hash"
    THEN [exc |-> "OSError", ret |-> FALSE, hashes |-> h]
    ELSE [exc |-> "none", ret |-> hash_of(path) \in touch(h, folder)[folder].set,
          hashes |-> touch(h, folder)]

\* lines 59-62: the cache after the loop over the files of folder
backfilled(folder) ==
    Only({add_files(hashes, listing) : listing \in {files_in_folder(folder)}})

\* has_file that lists a folder only the first time it is asked about it
has_file_scan_once(target_folder, path, fault) ==
    Only({Only({has_file_lookup(h, folder, path, fault) :
                    h \in {IF folder \in DOMAIN hashes THEN hashes
                           ELSE backfilled(folder)}}) :
              folder \in {os_path_normpath(target_folder)}})

\* HashCache.has_file: [exc, ret, hashes]; fault "hash" is an OSError of open/read
has_file(target_folder, path, fault) ==
    Only({Only({has_file_lookup(h, folder, path, fault) : h \in {backfilled(folder)}}) :
              folder \in {os_path_normpath(target_folder)}})

(***************************************************************************)
(* os.makedirs and shutil.move.                                            *)
(***************************************************************************)
EEXIST == 17

RECURSIVE ancestors(_)
ancestors(p) ==
    Only({IF Len(d) = 0 \/ d = p THEN {} ELSE {d} \cup ancestors(d) :
              d \in {os_path_dirname(p)}})

\* os.makedirs(name): [exc, errno, dirs]
os_makedirs(name, fault) ==
    IF fault = "makedirs" THEN [exc |-> "OSError", errno |-> 13, dirs |-> dirs]
    ELSE IF os_path_exists(name) THEN [exc |-> "OSError", errno |-> EEXIST, dirs |-> dirs]
    ELSE IF \E a \in ancestors(name) : os_path_isfile(a)
    THEN [exc |-> "OSError", errno |-> 20, dirs |-> dirs]
    ELSE [exc |-> "none", errno |-> 0, dirs |-> dirs \cup ancestors(name) \cup {name}]

\* the file system fs with the file at src renamed to dst (os.rename replaces a file)
renamed(fs, src, dst) ==
    [p \in (DOMAIN fs \ {src}) \cup {dst} |-> IF p = dst THEN fs[src] ELSE fs[p]]

\* shutil.move(src, dst) with the directories ds: [exc, files]
shutil_move(src, dst, ds, fault) ==
    LET real_dst == IF dst \in ds THEN os_path_join(dst, os_path_basename(src)) ELSE dst
    IN  IF fault = "move" THEN [exc |-> "OSError", files |-> files]
        ELSE IF dst \in ds /\ (real_dst \in DOMAIN files \/ real_dst \in ds)
        THEN [exc |-> "Error", files |-> files]
        ELSE IF os_path_dirname(real_dst) \notin ds
        THEN [exc |-> "OSError", files |-> files]
        ELSE [exc |-> "none", files |-> renamed(files, src, real_dst)]

(***************************************************************************)
(* move_file.  The value is the state it leaves and a record of what it    *)
(* did: result is "gone", "invalid", "duplicate", "moved" or "raised".     *)
(***************************************************************************)
Faults == {"none", "hash", "makedirs", "move"}

\* the record of one call: content is the content found at path ("" if none),
\* planned the name before resolve_duplicate, dst the name after, folder its
\* directory, hashed the files of that directory the back-fill of has_file
\* hashed, checked/dup whether has_file returned and what, overwrote whether
\* dst existed when the file was moved
Outcome(path, result) ==
    [path |-> path, result |-> result, exc |-> "none", fault |-> "none",
     content |-> IF path \in DOMAIN files THEN files[path].content ELSE "",
     planned |-> <<>>, dst |-> <<>>, folder |-> <<>>, hashed |-> {},
     checked |-> FALSE,
     dup |-> FALSE, overwrote |-> FALSE]

After(f, d, h, out) == [files |-> f, dirs |-> d, hashes |-> h, out |-> out]

\* line 136, given what shutil.move did; ds are the directories after makedirs
moved_or_raised(dst, h, fault, out, ds, mv) ==
    IF mv.exc # "none"
    THEN After(files, ds, h,
               [out EXCEPT !.result = "raised", !.exc = mv.exc,
                           !.fault = IF fault = "move" THEN fault ELSE "none"])
    ELSE After(mv.files, ds, h,
               [out EXCEPT !.result = "moved",
                           !.overwrote = (dst \in DOMAIN files \/ dst \in ds)])

\* the errno test of line 132 missing: every OSError of os.makedirs is raised
move_after_makedirs_any_errno(path, dst, h, fault, out, mk) ==
    IF mk.exc # "none"
    THEN After(files, dirs, h,
               [out EXCEPT !.result = "raised", !.exc = mk.exc,
                           !.fault = IF fault = "makedirs" THEN fault ELSE "none"])
    ELSE Only({moved_or_raised(dst, h, fault, out, mk.dirs, mv) :
                  mv \in {shutil_move(path, dst, mk.dirs, fault)}})

\* lines 130-136, given what os.makedirs did
move_after_makedirs(path, dst, h, fault, out, mk) ==
    IF mk.exc # "none" /\ mk.errno # EEXIST
    THEN After(files, dirs, h,
               [out EXCEPT !.result = "raised", !.exc = mk.exc,
                           !.fault = IF fault = "makedirs" THEN fault ELSE "none"])
    ELSE Only({moved_or_raised(dst, h, fault, out, mk.dirs, mv) :
                  mv \in {shutil_move(path, dst, mk.dirs, fault)}})

\* lines 127-136, entered when has_file returned False
make_and_move(path, dst, h, fault, out) ==
    Only({Only({move_after_makedirs(path, dst, h, fault, out, mk) :
                    mk \in {os_makedirs(name, fault)}}) :
              name \in {os_path_dirname(dst)}})

\* the early return of a duplicate missing
move_despite_duplicate(path, dst, fault, out, hf) ==
    IF hf.exc # "none"
    THEN After(files, dirs, hf.hashes,
               [out EXCEPT !.result = "raised", !.exc = hf.exc, !.fault = fault])
    ELSE make_and_move(path, dst, hf.hashes, fault,
                       [out EXCEPT !.checked = TRUE, !.dup = hf.ret])

\* lines 123-136, given what has_file returned or raised
move_unless_duplicate(path, dst, fault, out, hf) ==
    IF hf.exc # "none"
    THEN After(files, dirs, hf.hashes,
               [out EXCEPT !.result = "raised", !.exc = hf.exc, !.fault = fault])
    ELSE IF hf.ret
    THEN After(files, dirs, hf.hashes,
               [out EXCEPT !.result = "duplicate", !.checked = TRUE, !.dup = TRUE])
    ELSE make_and_move(path, dst, hf.hashes, fault, [out EXCEPT !.checked = TRUE])

\* the name dest_path plans before resolve_duplicate (for the record only)
planned_path(root_folder, cdate, path) ==
    IF cdate.exc # "none" THEN <<>> ELSE path_from_datetime(root_folder, cdate.val, path)

\* the record of a call that got as far as has_file
planned_outcome(path, dst, planned) ==
    [Outcome(path, "none") EXCEPT
        !.planned = planned, !.dst = dst, !.folder = os_path_dirname(dst),
        !.hashed = Only({files_hashed(hashes, listing) :
                            listing \in {files_in_folder(
                                os_path_normpath(os_path_dirname(dst)))}})]

\* lines 121-136, given what dest_path returned or raised
move_to(path, fault, dst, planned) ==
    IF dst.exc # "none"
    THEN After(files, dirs, hashes, [Outcome(path, "raised") EXCEPT !.exc = dst.exc])
    ELSE Only({Only({move_unless_duplicate(path, dst.val, fault, out, hf) :
                         hf \in {has_file(target_folder, path, fault)},
                         out \in {planned_outcome(path, dst.val, planned)}}) :
                  target_folder \in {os_path_dirname(dst.val)}})

move_file(root_folder, path, fault) ==
    IF ~os_path_exists(path) THEN After(files, dirs, hashes, Outcome(path, "gone"))
    ELSE IF ~is_valid_filename(path)
    THEN After(files, dirs, hashes, Outcome(path, "invalid"))
    ELSE Only({move_to(path, fault, dst, planned) :
                  dst \in {dest_path(root_folder, path)},
                  planned \in {Only({planned_path(root_folder, cdate, path) :
                                        cdate \in {creation_date(path)}})}})

(***************************************************************************)
(* The run: command line, the user's folders and files.                    *)
(***************************************************************************)
src_folder == <<"src">>

dest_folder == <<"root", Sep>>

\* the names the user gives files in the source folder
SrcNames == {<<"a", ".", "JPG">>, <<"n", ".", "txt">>}

\* the files the user drops: content and modification time
Drops == {File("A", Mtime1), File("B", Mtime1), File("N", Mtime1),
          File("N", Mtime2), File("X", Mtime1)}

Folder_2004_05 == <<"root", Sep, "2", "0", "0", "4", Sep, "2", "0", "0", "4", "-", "0", "5">>

Name_2004_05_07 ==
    <<"2", "0", "0", "4", "-", "0", "5", "-", "0", "7", " ",
      "2", "0", ".", "1", "6", ".", "3", "1", ".", "jpg">>

\* the archives the daemon may find at its start: none, or photo B filed already
InitArchives ==
    {[files |-> [p \in {} |-> <<>>], dirs |-> {}],
     [files |-> [p \in {os_path_join(Folder_2004_05, Name_2004_05_07)} |->
                    File("B", Mtime1)],
      dirs |-> {Folder_2004_05} \cup ancestors(Folder_2004_05)]}

NoOutcome == Outcome(<<>>, "none")

Init ==
    /\ \E a \in InitArchives :
          /\ files = a.files
          /\ dirs = a.dirs \cup {src_folder}
    /\ hashes = [k \in {} |-> EmptyEntry]
    /\ shared_queue = <<>>
    /\ unfinished_tasks = 0
    /\ is_running = TRUE
    /\ worker_pc = "new"
    /\ file_path = <<>>
    /\ main_pc = "start_thread"
    /\ observer_alive = FALSE
    /\ events = <<>>
    /\ last = NoOutcome
    /\ enq = <<>>
    /\ done = <<>>
    /\ sig_pending = 0
    /\ n_env = 0
    /\ libc_pads_year \in BOOLEAN

(***************************************************************************)
(* The user changes the source folder while the observer watches it; the   *)
(* observer notes each change as an event.  (A change made after the       *)
(* observer stopped is a change made just before, whose event is dropped.) *)
(* A file whose name is_valid_filename rejects is never opened, so one     *)
(* content stands for all of them.                                         *)
(***************************************************************************)
Event(kind, src, dest) == [kind |-> kind, src_path |-> src, dest_path |-> dest]

noted(ev) == Append(events, ev)

DropsFor(name) == IF is_valid_filename(name) THEN Drops ELSE {File("N", Mtime1)}

fs_unchanged == UNCHANGED <<dirs, hashes, libc_pads_year>>

queue_unchanged == UNCHANGED <<shared_queue, unfinished_tasks, enq>>

worker_unchanged == UNCHANGED <<is_running, worker_pc, file_path, last, done>>

main_unchanged == UNCHANGED <<main_pc, observer_alive, sig_pending>>

UserCreates ==
    \E name \in SrcNames : \E f \in DropsFor(name) :
        LET p == os_path_join(src_folder, name)
        IN  /\ n_env < MaxEnv
            /\ observer_alive
            /\ p \notin DOMAIN files
            /\ files' = [q \in DOMAIN files \cup {p} |-> IF q = p THEN f ELSE files[q]]
            /\ events' = noted(Event("created", p, <<>>))
            /\ n_env' = n_env + 1
            /\ fs_unchanged /\ queue_unchanged /\ worker_unchanged /\ main_unchanged

UserModifies ==
    \E name \in SrcNames : \E f \in DropsFor(name) :
        LET p == os_path_join(src_folder, name)
        IN  /\ n_env < MaxEnv
            /\ observer_alive
            /\ p \in DOMAIN files
            /\ files' = [files EXCEPT ![p] = f]
            /\ events' = noted(Event("modified", p, <<>>))
            /\ n_env' = n_env + 1
            /\ fs_unchanged /\ queue_unchanged /\ worker_unchanged /\ main_unchanged

UserRenames ==
    \E name \in SrcNames, to \in SrcNames :
        LET p == os_path_join(src_folder, name)
            q == os_path_join(src_folder, to)
        IN  /\ n_env < MaxEnv
            /\ observer_alive
            /\ p \in DOMAIN files
            /\ q \notin DOMAIN files
            /\ files' = renamed(files, p, q)
            /\ events' = noted(Event("moved", p, q))
            /\ n_env' = n_env + 1
            /\ fs_unchanged /\ queue_unchanged /\ worker_unchanged /\ main_unchanged

(***************************************************************************)
(* EventHandler: each callback puts the event's src_path on the queue.     *)
(***************************************************************************)
remove_at(s, i) == SubSeq(s, 1, i - 1) \o SubSeq(s, i + 1, Len(s))

\* queue.Queue.put
queue_put(item) ==
    /\ shared_queue' = Append(shared_queue, item)
    /\ unfinished_tasks' = unfinished_tasks + 1
    /\ enq' = Append(enq, item)

\* an on_moved that puts the path the file was moved to
dispatched_dest(i) ==
    /\ observer_alive
    /\ queue_put(IF events[i].kind = "moved" THEN events[i].dest_path
                 ELSE events[i].src_path)
    /\ events' = remove_at(events, i)
    /\ UNCHANGED <<files, n_env>>
    /\ fs_unchanged /\ worker_unchanged /\ main_unchanged

\* a handler that calls move_file itself, in the observer's thread
dispatched_moving(i) ==
    /\ observer_alive
    /\ \E r \in {move_file(dest_folder, events[i].src_path, "none")} :
          /\ files' = r.files
          /\ dirs' = r.dirs
          /\ hashes' = r.hashes
    /\ events' = remove_at(events, i)
    /\ UNCHANGED <<n_env, libc_pads_year>>
    /\ queue_unchanged /\ worker_unchanged /\ main_unchanged

\* the observer hands events[i] to the handler, which puts its src_path
dispatched(i) ==
    /\ observer_alive
    /\ queue_put(events[i].src_path)
    /\ events' = remove_at(events, i)
    /\ UNCHANGED <<files, n_env>>
    /\ fs_unchanged /\ worker_unchanged /\ main_unchanged

on_created == \E i \in 1..Len(events) : events[i].kind = "created" /\ dispatched(i)

on_modified == \E i \in 1..Len(events) : events[i].kind = "modified" /\ dispatched(i)

on_moved == \E i \in 1..Len(events) : events[i].kind = "moved" /\ dispatched(i)

(***************************************************************************)
(* MoveFileThread.                                                         *)
(***************************************************************************)
\* a LifoQueue in place of the Queue
queue_get_lifo(q) == [item |-> q[Len(q)], rest |-> SubSeq(q, 1, Len(q) - 1)]

\* the try/except around move_file missing: an exception ends the thread
after_move_file_uncaught(exc) == IF exc = "none" THEN "task_done" ELSE "crashed"

\* a get that leaves the item on the queue
queue_get_peek(q) == [item |-> Head(q), rest |-> q]

\* queue.Queue.get on a non-empty queue: the item and the queue without it
queue_get(q) == [item |-> Head(q), rest |-> Tail(q)]

\* where run() goes after move_file returned or raised exc
after_move_file(exc) == "task_done"

WorkerGet ==
    /\ worker_pc = "loop"
    /\ is_running
    /\ shared_queue # <<>>
    /\ file_path' = queue_get(shared_queue).item
    /\ shared_queue' = queue_get(shared_queue).rest
    /\ worker_pc' = "move"
    /\ UNCHANGED <<files, dirs, hashes, unfinished_tasks, is_running, main_pc,
                   observer_alive, events, last, enq, done, sig_pending, n_env,
                   libc_pads_year>>

\* queue.Empty: continue
WorkerGetEmpty ==
    /\ worker_pc = "loop"
    /\ is_running
    /\ shared_queue = <<>>
    /\ UNCHANGED vars

WorkerExit ==
    /\ worker_pc = "loop"
    /\ ~is_running
    /\ worker_pc' = "exited"
    /\ UNCHANGED <<files, dirs, hashes, shared_queue, unfinished_tasks, is_running,
                   file_path, main_pc, observer_alive, events, last, enq, done,
                   sig_pending, n_env,
                   libc_pads_year>>

\* lines 288-291: the state move_file leaves, r, becomes the state
move_file_returns(fault, r) ==
    /\ r.out.fault = fault
    /\ files' = r.files
    /\ dirs' = r.dirs
    /\ hashes' = r.hashes
    /\ last' = r.out
    /\ done' = Append(done, r.out)
    /\ worker_pc' = after_move_file(r.out.exc)

WorkerMoveFile ==
    \E fault \in Faults :
        /\ worker_pc = "move"
        /\ \E r \in {move_file(dest_folder, file_path, fault)} :
              move_file_returns(fault, r)
        /\ UNCHANGED <<shared_queue, unfinished_tasks, is_running, file_path,
                       main_pc, observer_alive, events, enq, sig_pending, n_env,
                       libc_pads_year>>

\* queue.Queue.task_done
WorkerTaskDone ==
    /\ worker_pc = "task_done"
    /\ unfinished_tasks' = unfinished_tasks - 1
    /\ worker_pc' = "loop"
    /\ UNCHANGED <<files, dirs, hashes, shared_queue, is_running, file_path, main_pc,
                   observer_alive, events, last, enq, done, sig_pending, n_env,
                   libc_pads_year>>

Worker == WorkerGet \/ WorkerGetEmpty \/ WorkerExit \/ WorkerMoveFile \/ WorkerTaskDone

(***************************************************************************)
(* run() in the main thread.                                               *)
(***************************************************************************)
main_only == UNCHANGED <<files, dirs, hashes, shared_queue, unfinished_tasks,
                         file_path, last, enq, done, n_env,
                         libc_pads_year>>

MainStartThread ==
    /\ main_pc = "start_thread"
    /\ worker_pc' = "loop"
    /\ main_pc' = "start_observer"
    /\ UNCHANGED <<is_running, observer_alive, events, sig_pending>>
    /\ main_only

MainStartObserver ==
    /\ main_pc = "start_observer"
    /\ observer_alive' = TRUE
    /\ main_pc' = "sleep"
    /\ UNCHANGED <<is_running, worker_pc, events, sig_pending>>
    /\ main_only

\* KeyboardInterrupt inside the try block of run()
KeyboardInterrupt ==
    /\ main_pc = "sleep"
    /\ main_pc' = "observer_stop"
    /\ sig_pending' = (IF Len(enq) - Len(done) >= 2 THEN 2 ELSE 0)
    /\ UNCHANGED <<is_running, worker_pc, observer_alive, events>>
    /\ main_only

\* KeyboardInterrupt before the try block is entered: run() raises and stops
\* nothing (a second interrupt, during the shutdown, is not modelled)
KeyboardInterruptUncaught ==
    /\ main_pc \in {"start_thread", "start_observer"}
    /\ main_pc' = "raised"
    /\ UNCHANGED <<is_running, worker_pc, observer_alive, events, sig_pending>>
    /\ main_only

\* observer.stop(); observer.join(): events not dispatched yet are dropped
MainObserverStop ==
    /\ main_pc = "observer_stop"
    /\ observer_alive' = FALSE
    /\ events' = <<>>
    /\ main_pc' = "queue_join"
    /\ UNCHANGED <<is_running, worker_pc, sig_pending>>
    /\ main_only

\* shared_queue.join() missing: the thread is stopped without waiting
MainQueueJoin_NoWait ==
    /\ main_pc = "queue_join"
    /\ main_pc' = "thread_stop"
    /\ UNCHANGED <<is_running, worker_pc, observer_alive, events, sig_pending>>
    /\ main_only

\* shared_queue.join() returns when unfinished_tasks is 0
MainQueueJoin ==
    /\ main_pc = "queue_join"
    /\ unfinished_tasks = 0
    /\ main_pc' = "thread_stop"
    /\ UNCHANGED <<is_running, worker_pc, observer_alive, events, sig_pending>>
    /\ main_only

\* move_thread.stop()
MainThreadStop ==
    /\ main_pc = "thread_stop"
    /\ is_running' = FALSE
    /\ main_pc' = "thread_join"
    /\ UNCHANGED <<worker_pc, observer_alive, events, sig_pending>>
    /\ main_only

\* move_thread.join() returns when the thread has ended
MainThreadJoin ==
    /\ main_pc = "thread_join"
    /\ worker_pc = "exited"
    /\ main_pc' = "returned"
    /\ UNCHANGED <<is_running, worker_pc, observer_alive, events, sig_pending>>
    /\ main_only

Main ==
    \/ MainStartThread \/ MainStartObserver \/ KeyboardInterrupt
    \/ KeyboardInterruptUncaught \/ MainObserverStop
    \/ MainQueueJoin \/ MainThreadStop \/ MainThreadJoin

User == UserCreates \/ UserModifies \/ UserRenames

Handler == on_created \/ on_modified \/ on_moved

Next == User \/ Handler \/ Worker \/ Main

Spec == Init /\ [][Next]_vars

\* what a call of move_file may end with: a return, or one of the exceptions
MoveFileExits == {"none", "OSError", "Error", "ValueError"}

\* WorkerMoveFile as worker_pc sees it: the call of move_file comes to its end
MoveFileEnds ==
    /\ worker_pc = "move"
    /\ worker_pc' \in {after_move_file(exc) : exc \in MoveFileExits}

\* the worker thread is scheduled as long as it has a step to take, and a
\* call of move_file in progress returns or raises
FairSpec ==
    /\ Spec
    /\ WF_vars(WorkerGet \/ WorkerExit \/ WorkerTaskDone)
    /\ WF_worker_pc(MoveFileEnds)

\* the shutdown sequence of run(), lines 323-329
MainShutdown == MainObserverStop \/ MainQueueJoin \/ MainThreadStop \/ MainThreadJoin

\* fair scheduling of the worker and of the main thread once it shuts down
FairShutdown ==
    /\ Spec
    /\ WF_vars(WorkerGet \/ WorkerExit \/ WorkerTaskDone)
    /\ WF_worker_pc(MoveFileEnds)
    /\ WF_vars(MainShutdown)

(***************************************************************************)
(* resolve_duplicate on its own: a folder in which each of the names       *)
(* base, base-1, ..., base-MaxSuffix is absent, a file or a directory,     *)
(* and one call of resolve_duplicate on base or on base-1.                 *)
(***************************************************************************)
MaxSuffix == 3

\* base-n.ext for the path base.ext
Suffixed(p, n) ==
    os_path_splitext(p)[1] \o <<"-">> \o fmt_int(n) \o os_path_splitext(p)[2]

BasePath == os_path_join(Folder_2004_05, Name_2004_05_07)

Candidate(k) == IF k = 0 THEN BasePath ELSE Suffixed(BasePath, k)

InitResolve ==
    /\ \E st \in [0..MaxSuffix -> {"absent", "file", "dir"}] :
          /\ files = [p \in {Candidate(k) : k \in {j \in 0..MaxSuffix : st[j] = "file"}}
                         |-> File("B", Mtime1)]
          /\ dirs = {src_folder, Folder_2004_05} \cup ancestors(Folder_2004_05)
                    \cup {Candidate(k) : k \in {j \in 0..MaxSuffix : st[j] = "dir"}}
    /\ hashes = [k \in {} |-> EmptyEntry]
    /\ shared_queue = <<>>
    /\ unfinished_tasks = 0
    /\ is_running = TRUE
    /\ worker_pc = "new"
    /\ file_path = <<>>
    /\ main_pc = "start_thread"
    /\ observer_alive = FALSE
    /\ events = <<>>
    /\ last = NoOutcome
    /\ enq = <<>>
    /\ done = <<>>
    /\ sig_pending = 0
    /\ n_env = 0
    /\ libc_pads_year \in BOOLEAN

ResolveCall ==
    \E k \in 0..1 :
        /\ last.result = "none"
        /\ last' = [Outcome(Candidate(k), "resolved") EXCEPT
                       !.planned = Candidate(k),
                       !.dst = resolve_duplicate(Candidate(k))]
        /\ UNCHANGED <<files, dirs, hashes, shared_queue, unfinished_tasks, is_running,
                       worker_pc, file_path, main_pc, observer_alive, events, enq,
                       done, sig_pending, n_env,
                       libc_pads_year>>

SpecResolve == InitResolve /\ [][ResolveCall]_vars

(***************************************************************************)
(* dest_path and creation_date as functions of one source file: the file   *)
(* is drawn with a name, a content and a modification time, the archive    *)
(* is empty or holds one photo, and each function is applied once.         *)
(***************************************************************************)
PlanNames ==
    {<<"p", ".", e>> : e \in {"JPG", "jpg", "PNG", "MOV", "jpeg"}}
        \cup {<<"b", ".", "tar", ".", "JPG">>}

PlanContents == {"N", "A", "B", "C", "E", "W", "V", "Q", "Z", "S", "X"}

PlanMtimes ==
    {DateTime(y, mo, d, h, 47, s) :
        y \in {1970, 2014}, mo \in {2, 12}, d \in {9, 23}, h \in {0, 21}, s \in {5, 14}}

\* the names a photo filed earlier may have in the archive
PlanArchived ==
    {<<"root", Sep, "2", "0", "1", "4", Sep, "2", "0", "1", "4", "-", "0", "2", Sep,
       "2", "0", "1", "4", "-", "0", "2", "-", "2", "3", " ",
       "2", "1", ".", "4", "7", ".", "1", "4", ".", "jpg">>,
     os_path_join(Folder_2004_05, Name_2004_05_07)}

\* what one call of creation_date did
Dated(path, cdate) ==
    [path |-> path, result |-> "dated", exc |-> cdate.exc, date |-> cdate.val]

InitPlan ==
    /\ \E name \in PlanNames, c \in PlanContents, m \in PlanMtimes :
       \E archived \in SUBSET PlanArchived :
          /\ Cardinality(archived) <= 1
          /\ files = [p \in {os_path_join(src_folder, name)} \cup archived |->
                         IF p \in archived THEN File("B", Mtime1) ELSE File(c, m)]
          /\ dirs = {src_folder, <<"root">>}
                    \cup UNION {ancestors(p) : p \in archived}
    /\ hashes = [k \in {} |-> EmptyEntry]
    /\ shared_queue = <<>>
    /\ unfinished_tasks = 0
    /\ is_running = TRUE
    /\ worker_pc = "new"
    /\ file_path = <<>>
    /\ main_pc = "start_thread"
    /\ observer_alive = FALSE
    /\ events = <<>>
    /\ last = NoOutcome
    /\ enq = <<>>
    /\ done = <<>>
    /\ sig_pending = 0
    /\ n_env = 0
    /\ libc_pads_year \in BOOLEAN

plan_unchanged ==
    UNCHANGED <<files, dirs, hashes, shared_queue, unfinished_tasks, is_running,
                worker_pc, file_path, main_pc, observer_alive, events, enq,
                done, sig_pending, n_env, libc_pads_year>>

\* the record of dest_path(root_folder, path) returning or raising dst
planned_as(path, dst) ==
    [Outcome(path, "planned") EXCEPT !.exc = dst.exc, !.dst = dst.val]

DestPathCall ==
    \E path \in {p \in DOMAIN files : os_path_dirname(p) = src_folder} :
        /\ last.result = "none"
        /\ last' = Only({planned_as(path, dst) : dst \in {dest_path(dest_folder, path)}})
        /\ plan_unchanged

CreationDateCall ==
    \E path \in {p \in DOMAIN files : os_path_dirname(p) = src_folder} :
        /\ last.result = "none"
        /\ last' = Only({Dated(path, cdate) : cdate \in {creation_date(path)}})
        /\ plan_unchanged

SpecPlan == InitPlan /\ [][DestPathCall \/ CreationDateCall]_vars

(***************************************************************************)
(* Properties.                                                             *)
(***************************************************************************)
\* a path of the destination tree
IsDest(p) == Len(p) > 0 /\ p[1] = "root"

\* the files of the destination tree that lie in folder
DestFilesIn(folder) == {p \in DOMAIN files : IsDest(p) /\ os_path_dirname(p) = folder}

\* the step in which move_file runs for file_path
MoveFileStep == worker_pc = "move" /\ worker_pc' # "move"

\* C1: drain on shutdown.  The observer is stopped before run() waits for the
\* queue, and is_running is false only when every path ever put on the queue
\* has had its move_file call finished: nothing is queued, in flight or dropped.
C1_DrainOnShutdown ==
    /\ main_pc \in {"queue_join", "thread_stop", "thread_join", "returned"}
          => ~observer_alive
    /\ ~is_running =>
          /\ ~observer_alive
          /\ shared_queue = <<>>
          /\ worker_pc \in {"loop", "exited"}
          /\ unfinished_tasks = 0
          /\ Len(done) = Len(enq)

\* the thread was stopped after an interrupt that found two items unattempted
C1_Witness == ~is_running /\ sig_pending >= 2 /\ Len(done) = Len(enq)

\* C2: FIFO.  The finished calls are, in order, the first paths put on the
\* queue; the call in progress is for the next one, and the queue holds the
\* rest in put order.
C2_Fifo ==
    /\ Len(done) <= Len(enq)
    /\ \A i \in 1..Len(done) : done[i].path = enq[i]
    /\ worker_pc = "move" =>
          /\ Len(done) < Len(enq)
          /\ file_path = enq[Len(done) + 1]
          /\ shared_queue = SubSeq(enq, Len(done) + 2, Len(enq))
    /\ worker_pc # "move" => shared_queue = SubSeq(enq, Len(done) + 1, Len(enq))

\* two different paths were processed, in the order they were put
C2_Witness == Len(done) >= 2 /\ done[1].path # done[2].path

\* C3: failure isolation.  The thread ends only when it is stopped, and once
\* move_file has raised for an item, every item put on the queue after it
\* gets its own move_file call.
C3_FailureIsolation ==
    /\ [](worker_pc = "exited" => ~is_running)
    /\ \A k \in 1..MaxEnv :
          []((/\ Len(enq) >= k
              /\ \E i \in 1..Len(done) : i < k /\ done[i].result = "raised")
             => <>(Len(done) >= k))

\* move_file raised for one item and moved a later one
C3_Witness ==
    \E i \in 1..Len(done) : \E j \in 1..Len(done) :
        i < j /\ done[i].result = "raised" /\ done[j].result = "moved"

\* C4: no overwrite.  No step changes or removes a file of the destination
\* tree; when move_file moves, the destination name did not exist and then
\* holds the source file; and when the planned name was taken, the
\* destination is the planned name with a suffix -n.
C4_NoOverwrite ==
    [][/\ \A p \in DOMAIN files :
             IsDest(p) => p \in DOMAIN files' /\ files'[p] = files[p]
       /\ (MoveFileStep /\ last'.result = "moved") =>
             /\ ~last'.overwrote
             /\ ~os_path_exists(last'.dst)
             /\ last'.dst \in DOMAIN files'
             /\ files'[last'.dst] = files[file_path]
             /\ os_path_exists(last'.planned) =>
                   \E n \in 1..(Cardinality(DOMAIN files) + Cardinality(dirs)) :
                       last'.dst = Suffixed(last'.planned, n)]_vars

\* a file was moved to a suffixed name because its planned name was taken
C4_Witness == last.result = "moved" /\ last.dst # last.planned

\* C5: dedup invariant.  No folder of the destination tree holds two files
\* with the same content.
C5_NoDuplicates ==
    \A p \in DOMAIN files : \A q \in DOMAIN files :
        (IsDest(p) /\ IsDest(q) /\ p # q /\ os_path_dirname(p) = os_path_dirname(q))
            => files[p].content # files[q].content

\* a file was refused as a duplicate by a folder that holds two files
C5_Witness ==
    \E i \in 1..Len(done) :
        done[i].result = "duplicate" /\ Cardinality(DestFilesIn(done[i].folder)) >= 2

\* C6: dedup-skip.  When has_file returns True, move_file changes no file
\* and no directory, and the source file is still at its path.
C6_DedupSkip ==
    [][(MoveFileStep /\ last'.checked /\ last'.dup) =>
          /\ files' = files
          /\ dirs' = dirs
          /\ file_path \in DOMAIN files'
          /\ last'.result = "duplicate"]_vars

\* a duplicate was skipped and is still in the source folder
C6_Witness == last.result = "duplicate" /\ last.path \in DOMAIN files

\* the accepted extensions, compared case-insensitively
HasMediaExtension(p) ==
    str_lower(os_path_splitext(p)[2])
        \in {<<".", "jpg">>, <<".", "jpeg">>, <<".", "png">>, <<".", "mov">>}

\* C7: ineligible items.  For a path that does not exist, or whose extension
\* is not accepted, move_file plans nothing and changes neither the file
\* system nor the hash cache.
C7_IneligibleNoOp ==
    [][(MoveFileStep /\ (~os_path_exists(file_path) \/ ~HasMediaExtension(file_path))) =>
          /\ files' = files
          /\ dirs' = dirs
          /\ hashes' = hashes
          /\ last'.planned = <<>>
          /\ last'.dst = <<>>
          /\ ~last'.checked
          /\ last'.result \in {"gone", "invalid"}]_vars

\* one item was found gone and another was refused for its extension
C7_Witness ==
    /\ \E i \in 1..Len(done) : done[i].result = "gone"
    /\ \E i \in 1..Len(done) : done[i].result = "invalid"

\* C8: resolve_duplicate(p) is p when p does not exist; otherwise it is
\* base-n.ext for the smallest n >= 1 for which that name does not exist;
\* what it returns never exists.
C8_SmallestFreeSuffix ==
    last.result = "resolved" =>
        /\ ~os_path_exists(last.dst)
        /\ ~os_path_exists(last.planned) => last.dst = last.planned
        /\ os_path_exists(last.planned) =>
              \E n \in 1..(MaxSuffix + 1) :
                  /\ last.dst = Suffixed(last.planned, n)
                  /\ \A m \in 1..(n - 1) : os_path_exists(Suffixed(last.planned, m))

\* base, base-1 and base-3 exist, base-2 does not: the gap is what is returned
C8_Witness ==
    /\ last.result = "resolved"
    /\ last.planned = BasePath
    /\ os_path_exists(Suffixed(BasePath, 3))
    /\ last.dst = Suffixed(BasePath, 2)

\* C9: has_file returns True exactly when some file of the queried folder has
\* the content of the candidate; False for a folder that does not exist or
\* holds no file.
C9_HasFileIffIdentical ==
    [][(MoveFileStep /\ last'.checked) =>
          /\ last'.dup <=>
                \E p \in DOMAIN files :
                    /\ os_path_dirname(p) = last'.folder
                    /\ files[p].content = files[file_path].content
          /\ (last'.folder \notin dirs \/ DestFilesIn(last'.folder) = {}) => ~last'.dup]_vars

\* has_file returned False for a folder whose hashes it already held
C9_Witness ==
    /\ last.checked /\ ~last.dup
    /\ last.folder \in DOMAIN hashes
    /\ hashes[last.folder].set # {}

\* what C10 as stated requires at the least: a path moved once and processed
\* again with the same content is not moved a second time.
C10_SecondRunNeverMoves ==
    \A i \in 1..Len(done) : \A j \in 1..Len(done) :
        (/\ i < j
         /\ done[i].path = done[j].path
         /\ done[i].result = "moved"
         /\ done[j].content = done[i].content)
            => done[j].result # "moved"

\* C10: a path moved once and processed again with the same content, planned
\* into the same destination folder, is a dedup-skip (or an OSError while
\* hashing), and that folder holds one file of that content.
C10_SecondRunSkipsInSameFolder ==
    \A i \in 1..Len(done) : \A j \in 1..Len(done) :
        (/\ i < j
         /\ done[i].path = done[j].path
         /\ done[i].result = "moved"
         /\ done[j].content = done[i].content
         /\ done[j].folder = done[i].folder)
            => /\ done[j].result = "duplicate" \/ done[j].fault = "hash"
               /\ Cardinality({p \in DestFilesIn(done[i].folder) :
                                  files[p].content = done[i].content}) = 1

\* the same path was moved and then skipped as a duplicate
C10_Witness ==
    \E i \in 1..Len(done) : \E j \in 1..Len(done) :
        /\ i < j
        /\ done[i].path = done[j].path
        /\ done[i].result = "moved"
        /\ done[j].content = done[i].content
        /\ done[j].result = "duplicate"

\* the digits of n in a field of four and of two
Digits4(n) ==
    <<DigitChars[((n \div 1000) % 10) + 1], DigitChars[((n \div 100) % 10) + 1],
      DigitChars[((n \div 10) % 10) + 1], DigitChars[(n % 10) + 1]>>

Digits2(n) == <<DigitChars[((n \div 10) % 10) + 1], DigitChars[(n % 10) + 1]>>

\* root/YYYY/YYYY-MM/YYYY-MM-DD HH.MM.SS.e for the date d and the name's
\* extension e in lower case
Layout(d, name) ==
    <<"root", Sep>> \o Digits4(d.year) \o <<Sep>>
    \o Digits4(d.year) \o <<"-">> \o Digits2(d.month) \o <<Sep>>
    \o Digits4(d.year) \o <<"-">> \o Digits2(d.month) \o <<"-">> \o Digits2(d.day)
    \o <<" ">> \o Digits2(d.hour) \o <<".">> \o Digits2(d.minute)
    \o <<".">> \o Digits2(d.second)
    \o <<".", lower_token(name[Len(name)])>>

\* C11: for a source file whose capture date is d, dest_path on an archive
\* with no entry at root/YYYY/YYYY-MM/'YYYY-MM-DD HH.MM.SS'.e returns exactly
\* that name: every field zero-padded, the extension in lower case, no suffix
C11_DestinationLayout ==
    (last.result = "planned" /\ last.exc = "none") =>
        \A d \in {creation_date(last.path).val} :
            ~os_path_exists(Layout(d, last.path)) => last.dst = Layout(d, last.path)

\* C11 for the years that have four digits
C11_LayoutFrom1000 ==
    (last.result = "planned" /\ last.exc = "none") =>
        \A d \in {creation_date(last.path).val} :
            (d.year >= 1000 /\ ~os_path_exists(Layout(d, last.path)))
                => last.dst = Layout(d, last.path)

C11_Witness ==
    /\ last.result = "planned"
    /\ last.exc = "none"
    /\ last.dst = Layout(creation_date(last.path).val, last.path)
    /\ last.path = <<"src", Sep, "b", ".", "tar", ".", "JPG">>
    /\ DOMAIN files # {last.path}

\* the embedded timestamps that name a date and time
WellFormed == {Ts_2004_05_07, Ts_2006_09_09, Ts_0099_05_07}

\* the tags of the file a call was about
TagsOf(path) == exif_tags(files[path].content)

\* the file's embedded timestamp cannot be used: there is none, or the one
\* found (DateTimeOriginal before DateTimeDigitized) is not well-formed
Unusable(path) ==
    \A t \in DOMAIN TagsOf(path) :
        (t = "EXIF DateTimeOriginal" \/ DOMAIN TagsOf(path) = {t})
            => TagsOf(path)[t] \notin WellFormed

\* C12: creation_date of an existing file never raises: whatever the embedded
\* timestamp is (absent, a wrong number of fields, a field that is no number,
\* six numbers that name no date) it returns a date, and the modification
\* time whenever the embedded timestamp cannot be used
C12_ResolverNeverRaises ==
    last.result = "dated" =>
        /\ last.exc = "none"
        /\ Unusable(last.path) => last.date = files[last.path].mtime

\* what does hold: a timestamp that is absent or has a wrong number of numeric
\* fields gives the modification time
C12_FallbackOnFieldCount ==
    (last.result = "dated" /\ files[last.path].content \in {"N", "W", "V"}) =>
        /\ last.exc = "none"
        /\ last.date = files[last.path].mtime

\* the date and time a well-formed timestamp names
DateOf(ts) ==
    CASE ts = Ts_2004_05_07 -> DateTime(2004, 5, 7, 20, 16, 31)
      [] ts = Ts_2006_09_09 -> DateTime(2006, 9, 9, 7, 0, 24)
      [] ts = Ts_0099_05_07 -> DateTime(99, 5, 7, 20, 16, 31)

\* the date the priority rule gives the file at path: DateTimeOriginal when
\* present and well-formed, DateTimeDigitized when DateTimeOriginal is absent
\* and it is present and well-formed, else the modification time
DateByPriority(path) ==
    IF "EXIF DateTimeOriginal" \in DOMAIN TagsOf(path)
    THEN IF TagsOf(path)["EXIF DateTimeOriginal"] \in WellFormed
         THEN DateOf(TagsOf(path)["EXIF DateTimeOriginal"])
         ELSE files[path].mtime
    ELSE IF /\ "EXIF DateTimeDigitized" \in DOMAIN TagsOf(path)
            /\ TagsOf(path)["EXIF DateTimeDigitized"] \in WellFormed
    THEN DateOf(TagsOf(path)["EXIF DateTimeDigitized"])
    ELSE files[path].mtime

\* C14: creation_date returns the parsed DateTimeOriginal when it is present
\* and well-formed, the parsed DateTimeDigitized only when DateTimeOriginal is
\* absent and DateTimeDigitized is present and well-formed, and the file's
\* modification time in every other case, a malformed selected field included
C14_CaptureDatePriority ==
    last.result = "dated" =>
        /\ last.exc = "none"
        /\ last.date = DateByPriority(last.path)

\* what does hold: the priority rule whenever creation_date returns
C14_PriorityWhenReturned ==
    (last.result = "dated" /\ last.exc = "none") =>
        last.date = DateByPriority(last.path)

\* run() has returned, so main returns 0: the queue is drained and the worker
\* thread has left its loop and is joined
Returned ==
    /\ main_pc = "returned"
    /\ worker_pc = "exited"
    /\ shared_queue = <<>>
    /\ unfinished_tasks = 0

\* C13: after a single interrupt, wherever in run() it arrives, and under fair
\* scheduling, run() eventually returns with the queue drained and the worker
\* thread joined, also when queued items fail
C13_ShutdownTerminates == (main_pc \in {"observer_stop", "raised"}) ~> Returned

\* what does hold: an interrupt that arrives in the sleep loop of run()
C13_TerminatesFromSleepLoop == (main_pc = "observer_stop") ~> Returned

\* C15: a file of a destination folder that an earlier has_file call hashed
\* and indexed is not hashed again by a later has_file call on that folder
C15_IncrementalBackfill ==
    \A i \in 1..Len(done) : \A j \in (i + 1)..Len(done) :
        done[i].folder = done[j].folder => done[i].hashed \cap done[j].hashed = {}

\* C16: while the queue is empty and the worker has not been stopped, the
\* worker in its loop is blocked: it has no step to take until an item is put
C16_WorkerSuspension ==
    (worker_pc = "loop" /\ is_running /\ shared_queue = <<>>) => ~ENABLED Worker

\* C17: when move_file gets as far as os.makedirs, a folder that exists
\* already is no failure and the file is moved into it; when os.makedirs
\* fails for another reason, move_file raises before anything is moved: no
\* file and no directory changes, the source file is still at its path, and
\* the worker goes on to task_done and its loop
C17_MakedirsOutcome ==
    [][(MoveFileStep /\ last'.checked /\ ~last'.dup) =>
          /\ (last'.fault = "none" /\ last'.folder \in dirs) =>
                /\ last'.result = "moved"
                /\ dirs' = dirs
                /\ file_path \notin DOMAIN files'
                /\ last'.dst \in DOMAIN files'
                /\ os_path_dirname(last'.dst) = last'.folder
          /\ last'.fault = "makedirs" =>
                /\ last'.result = "raised"
                /\ last'.exc = "OSError"
                /\ files' = files
                /\ dirs' = dirs
                /\ file_path \in DOMAIN files'
                /\ worker_pc' = "task_done"]_vars

\* a file was moved into a folder that existed (its planned name was taken
\* there), and for the next item os.makedirs failed and the file stayed
C17_Witness ==
    /\ Len(done) = 2
    /\ done[1].result = "moved"
    /\ done[1].dst # done[1].planned
    /\ done[2].fault = "makedirs"
    /\ done[2].result = "raised"
    /\ done[2].path \in DOMAIN files
    /\ worker_pc = "loop"

\* the number of items the worker holds: dequeued, move_file not yet finished
InFlight == IF worker_pc = "move" THEN 1 ELSE 0

\* C18: exactly-once consumption.  Every item put on the queue is on the
\* queue, in the worker's hands or finished, and never two of these; a step
\* that takes an item takes the head of the queue for one move_file call; the
\* step that finishes a call, returned or raised, finishes the item taken and
\* puts nothing back; only a put of a handler adds an item; and the finished
\* calls are never more than the items put.
C18_ExactlyOnce ==
    /\ [](/\ Len(enq) = Len(done) + InFlight + Len(shared_queue)
          /\ Len(done) <= Len(enq)
          /\ unfinished_tasks = Len(shared_queue) + InFlight
                                + (IF worker_pc = "task_done" THEN 1 ELSE 0))
    /\ [][/\ shared_queue' # shared_queue =>
                \/ /\ worker_pc = "loop"
                   /\ worker_pc' = "move"
                   /\ shared_queue # <<>>
                   /\ file_path' = Head(shared_queue)
                   /\ shared_queue' = Tail(shared_queue)
                   /\ enq' = enq /\ done' = done
                \/ /\ \E item \in {e.src_path : e \in {events[i] : i \in 1..Len(events)}} :
                         /\ shared_queue' = Append(shared_queue, item)
                         /\ enq' = Append(enq, item)
                   /\ Len(events') = Len(events) - 1
                   /\ worker_pc' = worker_pc /\ done' = done
          /\ enq' # enq => shared_queue' # shared_queue
          /\ done' # done =>
                /\ worker_pc = "move"
                /\ worker_pc' = "task_done"
                /\ Len(done') = Len(done) + 1
                /\ SubSeq(done', 1, Len(done)) = done
                /\ done'[Len(done')].path = file_path
                /\ shared_queue' = shared_queue
                /\ enq' = enq]_vars

\* the same path was put twice and processed twice, once for each put; the
\* first call raised and was not tried again
C18_Witness ==
    /\ Len(enq) = 2
    /\ enq[1] = enq[2]
    /\ Len(done) = 2
    /\ done[1].result = "raised"
    /\ done[2].result # "raised"
    /\ shared_queue = <<>>
    /\ unfinished_tasks = 0

\* the destination tree of the file system f
DestTree(f) == [p \in {q \in DOMAIN f : IsDest(q)} |-> f[p]]

\* C19: serial execution.  At most one item is taken from the queue and not
\* finished, and then the worker is in its move_file call; a step that changes
\* the hash cache, a directory or the destination tree is the worker's
\* move_file step for that item; and a step in which a callback puts an item
\* changes no file, no directory and not the hash cache.
C19_SerialExecution ==
    /\ [](/\ Len(enq) - Len(done) - Len(shared_queue) \in {0, 1}
          /\ (Len(enq) - Len(done) - Len(shared_queue) = 1) <=> (worker_pc = "move"))
    /\ [][/\ (hashes' # hashes \/ dirs' # dirs \/ DestTree(files') # DestTree(files)) =>
                /\ MoveFileStep
                /\ done' = Append(done, last')
                /\ last'.path = file_path
                /\ UNCHANGED <<shared_queue, enq, events>>
          /\ (enq' # enq \/ events' # events) =>
                UNCHANGED <<hashes, dirs, worker_pc, file_path, last, done>>
          /\ enq' # enq => files' = files]_vars

\* a move_file call is in progress while a notification waits for its callback
C19_Witness ==
    /\ worker_pc = "move"
    /\ observer_alive
    /\ events # <<>>
    /\ file_path \in DOMAIN files
    /\ is_valid_filename(file_path)

\* C20: notification handling.  A callback's step takes one created, modified
\* or moved notification, puts exactly one item, the notification's source
\* path (for a moved one the path the file was moved from, which is not the
\* path it was moved to), and changes nothing else; a notification leaves the
\* observer without a put only when the observer is stopped; the path a file
\* was moved from is absent when the notification is made; and move_file for
\* an absent path changes nothing.
C20_NotificationHandling ==
    [][/\ enq' # enq =>
             \E i \in 1..Len(events) :
                 /\ events[i].kind \in {"created", "modified", "moved"}
                 /\ enq' = Append(enq, events[i].src_path)
                 /\ shared_queue' = Append(shared_queue, events[i].src_path)
                 /\ unfinished_tasks' = unfinished_tasks + 1
                 /\ events' = remove_at(events, i)
                 /\ events[i].kind = "moved" => events[i].src_path # events[i].dest_path
                 /\ UNCHANGED <<files, dirs, hashes, is_running, worker_pc, file_path,
                                main_pc, observer_alive, last, done>>
       /\ (Len(events') < Len(events) /\ observer_alive') => Len(enq') = Len(enq) + 1
       /\ Len(events') > Len(events) =>
             /\ events' = Append(events, events'[Len(events')])
             /\ events'[Len(events')].kind = "moved" =>
                   /\ events'[Len(events')].src_path \notin DOMAIN files'
                   /\ events'[Len(events')].dest_path \in DOMAIN files'
       /\ (MoveFileStep /\ ~os_path_exists(file_path)) =>
             /\ last'.result = "gone"
             /\ UNCHANGED <<files, dirs, hashes>>]_vars

\* a file was created and renamed; the item of the moved notification, the
\* old path, was processed when nothing was there, and the file is at its new
\* path
C20_Witness ==
    /\ Len(done) = 2
    /\ done[2].path = <<"src", Sep, "a", ".", "JPG">>
    /\ done[2].result = "gone"
    /\ <<"src", Sep, "a", ".", "JPG">> \notin DOMAIN files
    /\ <<"src", Sep, "n", ".", "txt">> \in DOMAIN files
    /\ files[<<"src", Sep, "n", ".", "txt">>].content = "A"

====
